---- MODULE Spec2Model ----
(***************************************************************************)
(* The CANIAS web-service node: the per-item loop of                       *)
(* CaniasWebService.execute, the four response parsers, the two input      *)
(* validators and the SOAP error classifier handleSOAPError.               *)
(*                                                                         *)
(* JavaScript strings are TLA+ strings, which are sequences of characters:  *)
(* String.prototype.includes, trim, the session-id regular expression and  *)
(* template literals are computed on them with Len, SubSeq and \o.         *)
(* JavaScript values are records of one fixed shape (JV), so that any two  *)
(* of them can be compared.                                                *)
(***************************************************************************)
EXTENDS Integers, Sequences, FiniteSets, TLC

VARIABLES items, i, pc, clientOptions, request, received, returnData,
          output, thrown, raised, log

vars == <<items, i, pc, clientOptions, request, received, returnData,
          output, thrown, raised, log>>

\* ------------------------------------------------------------------------
\* Bounds of the model.
\* ------------------------------------------------------------------------

\* The longest input-item list execute is run on.
MaxItems == 2


\* ------------------------------------------------------------------------
\* Strings.
\* ------------------------------------------------------------------------

\* s.includes(p) mistaken for s.startsWith(p).
IncludesAtStart(s, p) ==
  Len(p) <= Len(s) /\ SubSeq(s, 1, Len(p)) = p

\* s.includes(p)
Includes(s, p) ==
  \E k \in 0..(Len(s) - Len(p)) : SubSeq(s, k + 1, k + Len(p)) = p

\* White space as String.prototype.trim sees it.
IsSpace(c) == c \in {" ", "\t", "\n", "\r"}

\* The k-th character of s, as a string.
CharAt(s, k) == SubSeq(s, k, k)

\* s.trim()
Trim(s) ==
  LET keep == {k \in 1..Len(s) : ~IsSpace(CharAt(s, k))}
  IN  IF keep = {} THEN ""
      ELSE SubSeq(s, CHOOSE k \in keep : \A m \in keep : k <= m,
                     CHOOSE k \in keep : \A m \in keep : k >= m)

\* The concatenation of a sequence of strings.
RECURSIVE Concat(_)
Concat(parts) ==
  IF parts = <<>> THEN "" ELSE Head(parts) \o Concat(Tail(parts))

\* parts.join(sep)
RECURSIVE Join(_, _)
Join(parts, sep) ==
  IF parts = <<>> THEN ""
  ELSE IF Len(parts) = 1 THEN parts[1]
  ELSE parts[1] \o sep \o Join(Tail(parts), sep)

\* The decimal digits of a natural number, as `${n}` prints it.
RECURSIVE NumToStr(_)
NumToStr(n) ==
  IF n < 10 THEN SubSeq("0123456789", n + 1, n + 1)
  ELSE NumToStr(n \div 10) \o SubSeq("0123456789", (n % 10) + 1, (n % 10) + 1)

\* ------------------------------------------------------------------------
\* JavaScript values.  t is the kind of value; s the characters of a
\* string; n a number; b a boolean; f the elements of an array or the
\* properties [k |-> name, v |-> value] of an object, in insertion order.
\* "cyclic" is an object that refers to itself.
\* ------------------------------------------------------------------------

JV(kind, str, num, bool, props) ==
  [t |-> kind, s |-> str, n |-> num, b |-> bool, f |-> props]

JUndefined == JV("undefined", "", 0, FALSE, <<>>)
JNull      == JV("null", "", 0, FALSE, <<>>)
JCyclic    == JV("cyclic", "", 0, FALSE, <<>>)
JStr(str)  == JV("string", str, 0, FALSE, <<>>)
JNum(num)  == JV("number", "", num, FALSE, <<>>)
JBool(bool) == JV("boolean", "", 0, bool, <<>>)
JObj(props) == JV("object", "", 0, FALSE, props)
JArr(elems) ==
  JV("array", "", 0, FALSE, [k \in 1..Len(elems) |-> [k |-> "", v |-> elems[k]]])

\* One property of an object literal.
Prop(name, val) == [k |-> name, v |-> val]

\* typeof v
Typeof(v) ==
  IF v.t \in {"null", "array", "object", "cyclic"} THEN "object" ELSE v.t

\* The truth value of v in a condition.
Truthy(v) ==
  CASE v.t \in {"undefined", "null"} -> FALSE
    [] v.t = "string"  -> v.s # ""
    [] v.t = "number"  -> v.n # 0
    [] v.t = "boolean" -> v.b
    [] OTHER -> TRUE

\* v === undefined || v === null
Nullish(v) == v.t \in {"undefined", "null"}

\* name in v, for an object v
Has(v, name) ==
  v.t = "object" /\ \E k \in 1..Len(v.f) : v.f[k].k = name

\* v?.name
Get(v, name) ==
  IF Has(v, name)
  THEN v.f[CHOOSE k \in 1..Len(v.f) : v.f[k].k = name].v
  ELSE JUndefined

\* String(v), also the conversion a template literal applies.
RECURSIVE StringOf(_)
StringOf(v) ==
  CASE v.t = "string"    -> v.s
    [] v.t = "number"    -> NumToStr(v.n)
    [] v.t = "boolean"   -> IF v.b THEN "true" ELSE "false"
    [] v.t = "undefined" -> "undefined"
    [] v.t = "null"      -> "null"
    [] v.t = "array"     ->
         Join([k \in 1..Len(v.f) |->
                 IF Nullish(v.f[k].v) THEN "" ELSE StringOf(v.f[k].v)], ",")
    [] OTHER             -> "[object Object]"

\* Whether JSON.stringify(v) throws: v holds a circular reference.
RECURSIVE JSONThrows(_)
JSONThrows(v) ==
  \/ v.t = "cyclic"
  \/ \E k \in 1..Len(v.f) : JSONThrows(v.f[k].v)

\* A string as JSON writes it.
JSONQuote(str) ==
  "\"" \o
  Concat([k \in 1..Len(str) |->
            CASE CharAt(str, k) = "\"" -> "\\\""
              [] CharAt(str, k) = "\\" -> "\\\\"
              [] CharAt(str, k) = "\n" -> "\\n"
              [] OTHER -> CharAt(str, k)]) \o
  "\""

\* level times the indentation unit of width indent.
Indentation(indent, level) ==
  Concat([k \in 1..(indent * level) |-> " "])

\* JSON.stringify(v, null, indent) for a v that does not throw; indent = 0
\* is JSON.stringify(v).  A property whose value is undefined is left out,
\* an undefined array element is written null.
RECURSIVE JSONText(_, _, _)
JSONText(v, indent, level) ==
  LET nl(lv)  == IF indent = 0 THEN "" ELSE "\n" \o Indentation(indent, lv)
      colon   == IF indent = 0 THEN ":" ELSE ": "
      kept    == SelectSeq(v.f, LAMBDA p : p.v.t # "undefined")
  IN  CASE v.t = "string"  -> JSONQuote(v.s)
        [] v.t = "number"  -> NumToStr(v.n)
        [] v.t = "boolean" -> IF v.b THEN "true" ELSE "false"
        [] v.t = "array"   ->
             IF v.f = <<>> THEN "[]"
             ELSE "[" \o nl(level + 1) \o
                  Join([k \in 1..Len(v.f) |->
                          IF v.f[k].v.t = "undefined" THEN "null"
                          ELSE JSONText(v.f[k].v, indent, level + 1)],
                       "," \o nl(level + 1)) \o
                  nl(level) \o "]"
        [] v.t = "object"  ->
             IF kept = <<>> THEN "{}"
             ELSE "{" \o nl(level + 1) \o
                  Join([k \in 1..Len(kept) |->
                          JSONQuote(kept[k].k) \o colon \o
                          JSONText(kept[k].v, indent, level + 1)],
                       "," \o nl(level + 1)) \o
                  nl(level) \o "}"
        [] OTHER -> "null"

\* An error object of the transport: {root, body, statusCode, message},
\* the undefined properties left out.
SOAPError(root, body, statusCode, message) ==
  JObj(SelectSeq(<<Prop("root", root), Prop("body", body),
                   Prop("statusCode", statusCode), Prop("message", message)>>,
                 LAMBDA p : p.v.t # "undefined"))

\* {Envelope: {Body: {Fault: fault}}}
Envelope(fault) ==
  JObj(<<Prop("Envelope", JObj(<<Prop("Body", JObj(<<Prop("Fault", fault)>>))>>))>>)

\* A fault object {faultcode, faultstring, faultactor, detail}, the
\* undefined properties left out.
Fault(faultcode, faultstring, faultactor, detail) ==
  JObj(SelectSeq(<<Prop("faultcode", faultcode), Prop("faultstring", faultstring),
                   Prop("faultactor", faultactor), Prop("detail", detail)>>,
                 LAMBDA p : p.v.t # "undefined"))

\* The values whose JSON texts JSON.parse is applied to.
ParseableValues ==
  { Envelope(Fault(JStr("Server.Error"), JStr("bad args"), JUndefined, JUndefined)),
    Envelope(Fault(JUndefined, JStr("boom"), JUndefined,
                   JObj(<<Prop("code", JStr("E1"))>>))),
    JObj(<<Prop("Envelope", JObj(<<Prop("Body", JObj(<<>>))>>))>>),
    JObj(<<Prop("code", JStr("E1"))>>),
    JNull,
    JStr("boom") }

\* JSON.parse(text): ok and the value, or not ok when it throws a
\* SyntaxError.  A text is parsed to the value it was written from.
JSONParse(text) ==
  IF \E v \in ParseableValues : JSONText(v, 0, 0) = text
  THEN [ok |-> TRUE, val |-> CHOOSE v \in ParseableValues : JSONText(v, 0, 0) = text]
  ELSE [ok |-> FALSE, val |-> JUndefined]

\* ------------------------------------------------------------------------
\* errorHandling.ts
\* ------------------------------------------------------------------------

\* x?.Envelope?.Body?.Fault
EnvelopeFault(x) == Get(Get(Get(x, "Envelope"), "Body"), "Fault")

\* extractSOAPFault without its try block: the SyntaxError of a body that
\* is not JSON takes the place of the fault.
extractSOAPFaultParseUncaught(error) ==
  IF Truthy(EnvelopeFault(Get(error, "root")))
  THEN EnvelopeFault(Get(error, "root"))
  ELSE IF Truthy(Get(error, "body"))
  THEN LET body   == Get(error, "body")
           parsed == IF Typeof(body) = "string" THEN JSONParse(body.s)
                     ELSE [ok |-> TRUE, val |-> body]
       IN  IF ~parsed.ok
           THEN JObj(<<Prop("message", JStr("Unexpected token < in JSON at position 0"))>>)
           ELSE IF Truthy(EnvelopeFault(parsed.val))
           THEN EnvelopeFault(parsed.val)
           ELSE JNull
  ELSE JNull

\* The fault object of an error, or null.
extractSOAPFault(error) ==
  IF Truthy(EnvelopeFault(Get(error, "root")))
  THEN EnvelopeFault(Get(error, "root"))
  ELSE IF Truthy(Get(error, "body"))
  THEN LET body   == Get(error, "body")
           parsed == IF Typeof(body) = "string" THEN JSONParse(body.s)
                     ELSE [ok |-> TRUE, val |-> body]
       IN  IF parsed.ok /\ Truthy(EnvelopeFault(parsed.val))
           THEN EnvelopeFault(parsed.val)
           ELSE JNull
  ELSE JNull

\* formatSOAPFaultMessage without its tests for an empty faultcode or faultstring.
formatSOAPFaultMessageUnguarded(fault) ==
  "SOAP Fault [" \o StringOf(Get(fault, "faultcode")) \o "] "
    \o StringOf(Get(fault, "faultstring"))

formatSOAPFaultMessage(fault) ==
  LET code == IF Truthy(Get(fault, "faultcode"))
              THEN << "[" \o StringOf(Get(fault, "faultcode")) \o "]" >>
              ELSE <<>>
      str  == IF Truthy(Get(fault, "faultstring"))
              THEN << StringOf(Get(fault, "faultstring")) >>
              ELSE <<>>
  IN  Join(<<"SOAP Fault">> \o code \o str, " ")

\* getErrorDescription pushing the status line first and joining with ", ".
getErrorDescriptionReordered(fault, error) ==
  LET detail == Get(fault, "detail")
      statusLine == IF Truthy(Get(error, "statusCode"))
                    THEN << "HTTP Status: " \o StringOf(Get(error, "statusCode")) >>
                    ELSE <<>>
      actorLine  == IF Truthy(Get(fault, "faultactor"))
                    THEN << "Actor: " \o StringOf(Get(fault, "faultactor")) >>
                    ELSE <<>>
      detailLine == IF Truthy(detail)
                    THEN << "Detail: " \o (IF Typeof(detail) = "string" THEN detail.s
                                           ELSE StringOf(detail)) >>
                    ELSE <<>>
      details    == statusLine \o actorLine \o detailLine
  IN  IF Len(details) > 0 THEN JStr(Join(details, ", ")) ELSE JUndefined

\* The description of a fault: a string, or undefined.
getErrorDescription(fault, error) ==
  LET detail == Get(fault, "detail")
      actorLine  == IF Truthy(Get(fault, "faultactor"))
                    THEN << "Actor: " \o StringOf(Get(fault, "faultactor")) >>
                    ELSE <<>>
      detailStr  == IF Typeof(detail) = "string" THEN detail.s
                    ELSE IF JSONThrows(detail) THEN StringOf(detail)
                    ELSE JSONText(detail, 2, 0)
      detailLine == IF Truthy(detail) THEN << "Detail: " \o detailStr >> ELSE <<>>
      statusLine == IF Truthy(Get(error, "statusCode"))
                    THEN << "HTTP Status: " \o StringOf(Get(error, "statusCode")) >>
                    ELSE <<>>
      details    == actorLine \o detailLine \o statusLine
  IN  IF Len(details) > 0 THEN JStr(Join(details, "\n")) ELSE JUndefined

\* statusMessages with the 404 entry missing and 502 and 504 exchanged.
statusMessagesMixedUp(code) ==
  CASE code = 400 -> "Bad Request - Invalid SOAP message"
    [] code = 401 -> "Unauthorized - Check credentials"
    [] code = 403 -> "Forbidden - Access denied"
    [] code = 500 -> "Internal Server Error - CANIAS server error"
    [] code = 504 -> "Bad Gateway - Cannot reach CANIAS server"
    [] code = 503 -> "Service Unavailable - CANIAS server is down"
    [] code = 502 -> "Gateway Timeout - CANIAS server not responding"
    [] OTHER      -> "HTTP Error"

\* statusMessages[statusCode] || 'HTTP Error'
statusMessages(code) ==
  CASE code = 400 -> "Bad Request - Invalid SOAP message"
    [] code = 401 -> "Unauthorized - Check credentials"
    [] code = 403 -> "Forbidden - Access denied"
    [] code = 404 -> "Not Found - WSDL endpoint not available"
    [] code = 500 -> "Internal Server Error - CANIAS server error"
    [] code = 502 -> "Bad Gateway - Cannot reach CANIAS server"
    [] code = 503 -> "Service Unavailable - CANIAS server is down"
    [] code = 504 -> "Gateway Timeout - CANIAS server not responding"
    [] OTHER      -> "HTTP Error"

\* error.message?.includes(pattern)
MessageIncludes(error, pattern) ==
  /\ Get(error, "message").t = "string"
  /\ Includes(Get(error, "message").s, pattern)

\* new NodeOperationError(node, nodeMessage, {itemIndex, description, message}):
\* the error handleSOAPError throws.  category names the branch that threw.
NodeOperationError(category, nodeMessage, itemIndex, description, message) ==
  [category |-> category, nodeMessage |-> nodeMessage, itemIndex |-> itemIndex,
   description |-> description, message |-> message]

\* The prefix without the name of the operation.
FailedToExecuteUnnamed(operation, text) ==
  "Failed to execute operation: " \o text

\* `Failed to execute ${operation} operation: ${text}`
FailedToExecute(operation, text) ==
  "Failed to execute " \o operation \o " operation: " \o text

\* The tests of handleSOAPError with the status code looked at before the
\* fault and the certificate patterns before the others.
CategoryReordered(error) ==
  IF Truthy(Get(error, "statusCode")) THEN "http"
  ELSE IF Truthy(extractSOAPFault(error)) THEN "fault"
  ELSE IF \/ MessageIncludes(error, "CERT_")
          \/ MessageIncludes(error, "certificate")
          \/ MessageIncludes(error, "SSL")
  THEN "tls"
  ELSE IF \/ MessageIncludes(error, "ECONNREFUSED")
          \/ MessageIncludes(error, "ENOTFOUND")
          \/ MessageIncludes(error, "ECONNRESET")
  THEN "connection"
  ELSE IF MessageIncludes(error, "timeout") \/ MessageIncludes(error, "ETIMEDOUT")
  THEN "timeout"
  ELSE "generic"

\* The branches with the TLS tests made before the connection tests.
CategoryConnectionLast(error) ==
  IF Truthy(extractSOAPFault(error)) THEN "fault"
  ELSE IF Truthy(Get(error, "statusCode")) THEN "http"
  ELSE IF MessageIncludes(error, "timeout") \/ MessageIncludes(error, "ETIMEDOUT")
  THEN "timeout"
  ELSE IF \/ MessageIncludes(error, "CERT_")
          \/ MessageIncludes(error, "certificate")
          \/ MessageIncludes(error, "SSL")
  THEN "tls"
  ELSE IF \/ MessageIncludes(error, "ECONNREFUSED")
          \/ MessageIncludes(error, "ENOTFOUND")
          \/ MessageIncludes(error, "ECONNRESET")
  THEN "connection"
  ELSE "generic"

\* The branches without the test for CERT_.
CategoryWithoutCERT(error) ==
  IF Truthy(extractSOAPFault(error)) THEN "fault"
  ELSE IF Truthy(Get(error, "statusCode")) THEN "http"
  ELSE IF MessageIncludes(error, "timeout") \/ MessageIncludes(error, "ETIMEDOUT")
  THEN "timeout"
  ELSE IF \/ MessageIncludes(error, "ECONNREFUSED")
          \/ MessageIncludes(error, "ENOTFOUND")
          \/ MessageIncludes(error, "ECONNRESET")
  THEN "connection"
  ELSE IF MessageIncludes(error, "certificate") \/ MessageIncludes(error, "SSL")
  THEN "tls"
  ELSE "generic"

\* The branch of handleSOAPError an error takes: the first test that holds,
\* in the order the function makes them.
Category(error) ==
  IF Truthy(extractSOAPFault(error)) THEN "fault"
  ELSE IF Truthy(Get(error, "statusCode")) THEN "http"
  ELSE IF MessageIncludes(error, "timeout") \/ MessageIncludes(error, "ETIMEDOUT")
  THEN "timeout"
  ELSE IF \/ MessageIncludes(error, "ECONNREFUSED")
          \/ MessageIncludes(error, "ENOTFOUND")
          \/ MessageIncludes(error, "ECONNRESET")
  THEN "connection"
  ELSE IF \/ MessageIncludes(error, "CERT_")
          \/ MessageIncludes(error, "certificate")
          \/ MessageIncludes(error, "SSL")
  THEN "tls"
  ELSE "generic"

\* A classifier that drops the message of the error it is given.
handleSOAPErrorMessageLost(error, itemIndex, operation) ==
  NodeOperationError("generic", "Unknown error occurred", itemIndex, JUndefined,
    FailedToExecute(operation, "Unknown error occurred"))

\* The error handleSOAPError throws for an error caught at item itemIndex.
handleSOAPError(error, itemIndex, operation) ==
  LET category == Category(error)
      fault == extractSOAPFault(error)
      statusCode == Get(error, "statusCode")
      statusMessage == statusMessages(statusCode.n)
      errorMessage == IF Truthy(Get(error, "message"))
                      THEN StringOf(Get(error, "message"))
                      ELSE "Unknown error occurred"
  IN  CASE category = "fault" ->
             NodeOperationError("fault", formatSOAPFaultMessage(fault), itemIndex,
               getErrorDescription(fault, error),
               FailedToExecute(operation, formatSOAPFaultMessage(fault)))
        [] category = "http" ->
             NodeOperationError("http",
               statusMessage \o " (" \o StringOf(statusCode) \o ")", itemIndex,
               Get(error, "message"),
               FailedToExecute(operation, statusMessage))
        [] category = "timeout" ->
             NodeOperationError("timeout",
               "Request timeout - CANIAS server did not respond in time", itemIndex,
               JStr("Try increasing the timeout in Advanced settings or check server availability"),
               FailedToExecute(operation, "Timeout"))
        [] category = "connection" ->
             NodeOperationError("connection",
               "Cannot connect to CANIAS server", itemIndex,
               JStr("Check WSDL URL in credentials and ensure CANIAS server is accessible"),
               FailedToExecute(operation, "Connection failed"))
        [] category = "tls" ->
             NodeOperationError("tls",
               "SSL/TLS certificate error", itemIndex,
               JStr("Enable \"Disable SSL Verification\" in Advanced settings if using self-signed certificates"),
               FailedToExecute(operation, "Certificate error"))
        [] OTHER ->
             NodeOperationError("generic", errorMessage, itemIndex, JUndefined,
               FailedToExecute(operation, errorMessage))

\* An error that carries a status code next to its message.
NewErrorWithStatus(message) ==
  JObj(<<Prop("message", JStr(message)), Prop("statusCode", JNum(400))>>)

\* new Error(message)
NewError(message) == JObj(<<Prop("message", JStr(message))>>)

\* The outcome of a call that returns val or throws err.
Returned(val) == [threw |-> FALSE, val |-> val, err |-> JUndefined]
Threw(err)    == [threw |-> TRUE, val |-> JUndefined, err |-> err]

\* [A-Za-z0-9_-]
SessionIdChars ==
  {CharAt("ABCDEFGHIJKLMNOPQRSTUVWXYZabcdefghijklmnopqrstuvwxyz0123456789_-", k) : k \in 1..64}

\* The pattern without its anchors: /[A-Za-z0-9_-]+/.test(str)
SessionIdPatternUnanchored(str) ==
  \E k \in 1..Len(str) : CharAt(str, k) \in SessionIdChars

\* /^[A-Za-z0-9_-]+$/.test(str)
SessionIdPattern(str) ==
  Len(str) > 0 /\ \A k \in 1..Len(str) : CharAt(str, k) \in SessionIdChars

validateSessionId(sessionId) ==
  IF sessionId = "" \/ Trim(sessionId) = ""
  THEN Threw(NewError("Session ID is required and cannot be empty"))
  ELSE IF ~SessionIdPattern(sessionId)
  THEN Threw(NewError("Invalid session ID format. Session ID should contain only letters, numbers, dashes, and underscores"))
  ELSE Returned(JUndefined)

validateServiceId(serviceId) ==
  IF serviceId = "" \/ Trim(serviceId) = ""
  THEN Threw(NewError("Service ID is required and cannot be empty"))
  ELSE Returned(JUndefined)

\* ------------------------------------------------------------------------
\* The response parsers of CaniasWebService.node.ts
\* ------------------------------------------------------------------------

\* parseLoginResponse without the test that loginReturn is truthy.
parseLoginResponseAnyField(res) ==
  IF Truthy(res) /\ Typeof(res) = "object" /\ Has(res, "loginReturn")
  THEN Returned(JObj(<<Prop("sessionId", Get(res, "loginReturn"))>>))
  ELSE IF Typeof(res) = "string"
  THEN Returned(JObj(<<Prop("sessionId", res)>>))
  ELSE Threw(NewError("Login failed: No session ID returned from server"))

parseLoginResponse(res) ==
  IF /\ Truthy(res) /\ Typeof(res) = "object" /\ Has(res, "loginReturn")
     /\ Truthy(Get(res, "loginReturn"))
  THEN Returned(JObj(<<Prop("sessionId", Get(res, "loginReturn"))>>))
  ELSE IF Typeof(res) = "string"
  THEN Returned(JObj(<<Prop("sessionId", res)>>))
  ELSE Threw(NewError("Login failed: No session ID returned from server"))

\* parseListServicesResponse with the in operator applied to any response:
\* on a response that is not an object it throws a TypeError.
parseListServicesResponseUnguarded(res) ==
  IF Typeof(res) # "object" \/ res.t = "null"
  THEN Threw(NewError("Cannot use 'in' operator to search for 'listIASServicesReturn'"))
  ELSE IF Has(res, "listIASServicesReturn")
  THEN Returned(JObj(<<Prop("services",
         IF Nullish(Get(res, "listIASServicesReturn")) THEN JArr(<<>>)
         ELSE Get(res, "listIASServicesReturn"))>>))
  ELSE IF res.t = "array"
  THEN Returned(JObj(<<Prop("services", res)>>))
  ELSE Returned(JObj(<<Prop("services", JArr(<<>>))>>))

\* parseListServicesResponse without the default of ?? [].
parseListServicesResponseNoDefault(res) ==
  IF Truthy(res) /\ Typeof(res) = "object" /\ Has(res, "listIASServicesReturn")
  THEN Returned(JObj(<<Prop("services", Get(res, "listIASServicesReturn"))>>))
  ELSE IF res.t = "array"
  THEN Returned(JObj(<<Prop("services", res)>>))
  ELSE Returned(JObj(<<Prop("services", JArr(<<>>))>>))

parseListServicesResponse(res) ==
  IF Truthy(res) /\ Typeof(res) = "object" /\ Has(res, "listIASServicesReturn")
  THEN Returned(JObj(<<Prop("services",
         IF Nullish(Get(res, "listIASServicesReturn")) THEN JArr(<<>>)
         ELSE Get(res, "listIASServicesReturn"))>>))
  ELSE IF res.t = "array"
  THEN Returned(JObj(<<Prop("services", res)>>))
  ELSE Returned(JObj(<<Prop("services", JArr(<<>>))>>))

\* parseCallServiceResponse that never unwraps the response.
parseCallServiceResponseAsIs(res) == Returned(res)

parseCallServiceResponse(res) ==
  IF Truthy(res) /\ Typeof(res) = "object" /\ Has(res, "callIASServiceReturn")
  THEN Returned(Get(res, "callIASServiceReturn"))
  ELSE Returned(res)

\* parseLogoutResponse without the default of ?? null.
parseLogoutResponseNoDefault(res) ==
  Returned(JObj(<<Prop("success", JBool(TRUE)), Prop("response", res)>>))

parseLogoutResponse(res) ==
  Returned(JObj(<<Prop("success", JBool(TRUE)),
                  Prop("response", IF Nullish(res) THEN JNull ELSE res)>>))

\* ------------------------------------------------------------------------
\* CaniasWebService.execute: the inputs.
\* ------------------------------------------------------------------------

Operations == {"login", "listIASServices", "callIASService", "logout"}

\* The request fields of login, and the credential each defaults to.
LoginFields ==
  <<"p_strClient", "p_strLanguage", "p_strDBName", "p_strDBServer",
    "p_strAppServer", "p_strUserName", "p_strPassword">>

\* getCredentials('caniasWebServiceApi')
credentials ==
  [wsdlUrl |-> "http://canias/services/iasWebService?wsdl",
   p_strClient |-> "00", p_strLanguage |-> "T",
   p_strDBName |-> "IAS803RDB", p_strDBServer |-> "CANIAS",
   p_strAppServer |-> "appsrv:27499", p_strUserName |-> "IASSETUP",
   p_strPassword |-> "secret"]

\* No login override is given.
NoOverrides == [p \in {LoginFields[k] : k \in 1..7} |-> ""]

\* The node parameters of one input item.  sessionId is the session-id
\* parameter the item's operation reads (listSessionId, sessionid or
\* p_strSessionId); overrides are the seven login *Override parameters.
Item(operation, sessionId, serviceId, returnFull) ==
  [operation |-> operation, sessionId |-> sessionId, serviceId |-> serviceId,
   returntype |-> "json", permanent |-> FALSE,
   argsMode |-> "rawString", argsJson |-> JObj(<<>>), argsRaw |-> "",
   returnFull |-> returnFull, endpoint |-> "", advanced |-> JObj(<<>>),
   overrides |-> NoOverrides]

\* The items execute is run on.
ItemConfigs ==
  { Item("login", "", "", FALSE),
    [Item("login", "", "", TRUE) EXCEPT
       !.overrides = [NoOverrides EXCEPT !["p_strClient"] = "01",
                                         !["p_strLanguage"] = " "],
       !.endpoint = "http://proxy/ias",
       !.advanced = JObj(<<Prop("timeout", JNum(120000)),
                           Prop("disableSslVerification", JBool(TRUE))>>)],
    Item("listIASServices", "abc-123_XY", "", FALSE),
    Item("listIASServices", "", "", FALSE),
    Item("callIASService", "ABC123", "svcA", FALSE),
    [Item("callIASService", "ABC123", "svcA", TRUE) EXCEPT
       !.argsMode = "jsonString",
       !.argsJson = JObj(<<Prop("x", JNum(1))>>)],
    Item("callIASService", "ABC123", " ", FALSE),
    Item("callIASService", "a b", "svcA", FALSE),
    Item("logout", "ABC123", "", FALSE),
    Item("logout", " ", "", TRUE),
    Item("ping", "ABC123", "", FALSE) }

\* What a SOAP operation resolves to: [res, raw, headers].
Response(res, raw, headers) == [res |-> res, raw |-> raw, headers |-> headers]

RawBody == "<soapenv:Envelope><soapenv:Body/></soapenv:Envelope>"

\* The responses the transport gives to an operation.
Responses(operation) ==
  CASE operation = "login" ->
         { Response(JObj(<<Prop("loginReturn", JStr("ABC123"))>>), RawBody, JObj(<<>>)),
           Response(JStr("abc-123_XY"), RawBody, JObj(<<>>)),
           Response(JObj(<<>>), "<soapenv:Envelope/>", JObj(<<>>)) }
    [] operation = "listIASServices" ->
         { Response(JObj(<<Prop("listIASServicesReturn",
                                JArr(<<JStr("svcA"), JStr("svcB")>>))>>),
                    RawBody, JObj(<<>>)),
           Response(JArr(<<JStr("svcA")>>), RawBody, JObj(<<>>)),
           Response(JNull, "<soapenv:Envelope/>", JUndefined) }
    [] operation = "callIASService" ->
         { Response(JObj(<<Prop("callIASServiceReturn", JObj(<<Prop("x", JNum(1))>>))>>),
                    RawBody, JObj(<<Prop("content-type", JStr("text/xml"))>>)),
           Response(JObj(<<Prop("callIASServiceReturn", JStr("svcB"))>>),
                    RawBody, JObj(<<>>)),
           Response(JNull, "<soapenv:Envelope/>", JObj(<<>>)) }
    [] OTHER ->
         { Response(JUndefined, RawBody, JObj(<<>>)),
           Response(JObj(<<>>), "<soapenv:Envelope/>", JObj(<<>>)) }

\* The errors createClientAsync and the SOAP operations fail with in execute.
TransportErrors ==
  { SOAPError(Envelope(Fault(JStr("Server.Error"), JStr("bad args"),
                             JUndefined, JUndefined)),
              JUndefined, JNum(500), JStr("boom")),
    SOAPError(JUndefined, JStr("<html>Bad Gateway</html>"), JNum(502), JStr("boom")),
    SOAPError(JUndefined, JUndefined, JUndefined, JStr("timeout of 120000ms exceeded")),
    SOAPError(JUndefined, JUndefined, JUndefined, JStr("getaddrinfo ENOTFOUND host")),
    SOAPError(JUndefined, JUndefined, JUndefined,
              JStr("unable to verify the first certificate")),
    SOAPError(JUndefined, JUndefined, JUndefined, JStr("boom")) }

\* ------------------------------------------------------------------------
\* CaniasWebService.execute: one item.
\* ------------------------------------------------------------------------

\* The options createClientAsync is given for an item.
ClientOptions(item) ==
  JObj((IF Truthy(Get(item.advanced, "timeout"))
        THEN <<Prop("timeout", Get(item.advanced, "timeout"))>> ELSE <<>>)
       \o (IF item.endpoint # ""
           THEN <<Prop("endpoint", JStr(item.endpoint))>> ELSE <<>>)
       \o (IF Truthy(Get(item.advanced, "disableSslVerification"))
           THEN <<Prop("wsdl_options",
                       JObj(<<Prop("rejectUnauthorized", JBool(FALSE))>>)),
                  Prop("request_options",
                       JObj(<<Prop("rejectUnauthorized", JBool(FALSE))>>))>>
           ELSE <<>>))

\* override.trim() !== '' ? override : credential
LoginParameter(item, field) ==
  IF Trim(item.overrides[field]) # "" THEN item.overrides[field]
  ELSE credentials[field]

\* The args taken from argsRaw in both modes.
CallArgsRaw(item) == item.argsRaw

\* The args of callIASService.
CallArgs(item) ==
  IF item.argsMode = "jsonString"
  THEN JSONText(IF Nullish(item.argsJson) THEN JObj(<<>>) ELSE item.argsJson, 0, 0)
  ELSE item.argsRaw

\* From the creation of the client to the SOAP call of an item: the request
\* the operation is called with, or the error thrown before the call.
BuildRequest(item) ==
  CASE item.operation = "login" ->
         Returned(JObj([k \in 1..7 |->
                          Prop(LoginFields[k], JStr(LoginParameter(item, LoginFields[k])))]))
    [] item.operation = "listIASServices" ->
         IF validateSessionId(item.sessionId).threw
         THEN validateSessionId(item.sessionId)
         ELSE Returned(JObj(<<Prop("p_strSessionId", JStr(item.sessionId))>>))
    [] item.operation = "callIASService" ->
         IF validateSessionId(item.sessionId).threw
         THEN validateSessionId(item.sessionId)
         ELSE IF validateServiceId(item.serviceId).threw
         THEN validateServiceId(item.serviceId)
         ELSE Returned(JObj(<<Prop("sessionid", JStr(item.sessionId)),
                              Prop("serviceid", JStr(item.serviceId)),
                              Prop("args", JStr(CallArgs(item))),
                              Prop("returntype", JStr(item.returntype)),
                              Prop("permanent", JBool(item.permanent))>>))
    [] item.operation = "logout" ->
         IF validateSessionId(item.sessionId).threw
         THEN validateSessionId(item.sessionId)
         ELSE Returned(JObj(<<Prop("p_strSessionId", JStr(item.sessionId))>>))
    [] OTHER ->
         Threw(NewError("Unsupported operation: " \o item.operation))

\* A parser that keeps the first result it has given and gives it again.
ParseResponseCached(operation, res) ==
  IF returnData # <<>> THEN Returned(Get(returnData[1], "json"))
  ELSE CASE operation = "login"           -> parseLoginResponse(res)
         [] operation = "listIASServices" -> parseListServicesResponse(res)
         [] operation = "callIASService"  -> parseCallServiceResponse(res)
         [] OTHER                         -> parseLogoutResponse(res)

\* The parser of an operation applied to the response's first component.
ParseResponse(operation, res) ==
  CASE operation = "login"           -> parseLoginResponse(res)
    [] operation = "listIASServices" -> parseListServicesResponse(res)
    [] operation = "callIASService"  -> parseCallServiceResponse(res)
    [] OTHER                         -> parseLogoutResponse(res)

\* The record with primitive results pushed as they are.
OutputRecordUnwrapped(returnFull, result, rawResponse, soapHeaders) ==
  IF returnFull
  THEN JObj(<<Prop("json", JObj(<<Prop("result", result),
                                  Prop("rawResponse", JStr(rawResponse)),
                                  Prop("soapHeaders", soapHeaders)>>))>>)
  ELSE JObj(<<Prop("json", IF Nullish(result) THEN JObj(<<>>) ELSE result)>>)

\* The record pushed to returnData for a parsed result.
OutputRecord(returnFull, result, rawResponse, soapHeaders) ==
  IF returnFull
  THEN JObj(<<Prop("json", JObj(<<Prop("result", result),
                                  Prop("rawResponse", JStr(rawResponse)),
                                  Prop("soapHeaders", soapHeaders)>>))>>)
  ELSE IF Typeof(result) \in {"string", "number", "boolean"}
  THEN JObj(<<Prop("json", JObj(<<Prop("data", result)>>))>>)
  ELSE JObj(<<Prop("json", IF Nullish(result) THEN JObj(<<>>) ELSE result)>>)

\* returnData.unshift(record)
PushFront(data, record) == <<record>> \o data

\* returnData.push(record)
Push(data, record) == Append(data, record)

\* ------------------------------------------------------------------------
\* CaniasWebService.execute: the loop.  pc is the place execute is at:
\* "loop" at the head of the for loop, "createClient" and "call" awaiting
\* createClientAsync and the SOAP operation, "done" once it has returned,
\* "failed" once it has thrown.  log is the history of what was done for
\* which item; received[k] is the response item k - 1 was answered with.
\* ------------------------------------------------------------------------

Ev(ev, item) == [ev |-> ev, item |-> item]

\* No error has been thrown.
NoError == NodeOperationError("none", "", 0, JUndefined, "")

\* The item the loop is at.
Current == items[i + 1]

Init ==
  /\ items \in UNION {[1..n -> ItemConfigs] : n \in 1..MaxItems}
  /\ i = 0
  /\ pc = "loop"
  /\ clientOptions = JUndefined
  /\ request = JUndefined
  /\ received = <<>>
  /\ returnData = <<>>
  /\ output = <<>>
  /\ thrown = JUndefined
  /\ raised = NoError
  /\ log = <<>>

\* The catch block of the node's first version: the caught error's message
\* is thrown again as it is, and handleSOAPError is not called.
CatchUnclassified(error) ==
  /\ thrown' = error
  /\ raised' = NodeOperationError("generic", StringOf(Get(error, "message")), i,
                                  JUndefined, StringOf(Get(error, "message")))
  /\ pc' = "failed"
  /\ log' = Append(log, Ev("throw", i))

\* A catch block that tries the item again instead of throwing.
CatchRetrying(error) ==
  /\ thrown' = error
  /\ raised' = NoError
  /\ pc' = "createClient"
  /\ log' = Append(log, Ev("throw", i))

\* A catch block that ends execute as if the loop were over.
CatchSwallowing(error) ==
  /\ thrown' = error
  /\ raised' = handleSOAPError(error, i, Current.operation)
  /\ pc' = "done"
  /\ log' = log \o <<Ev("throw", i), Ev("classify", i)>>

\* catch (error) { handleSOAPError(error, this.getNode(), i, operation) }
Catch(error) ==
  /\ thrown' = error
  /\ raised' = handleSOAPError(error, i, Current.operation)
  /\ pc' = "failed"
  /\ log' = log \o <<Ev("throw", i), Ev("classify", i)>>

\* A loop that takes the next item while the SOAP operation of the current
\* one is still awaited.
StartItemOverlapping ==
  /\ pc \in {"loop", "call"}
  /\ IF pc = "call" THEN i + 1 < Len(items) /\ i' = i + 1
                    ELSE i < Len(items) /\ i' = i
  /\ clientOptions' = ClientOptions(items[i' + 1])
  /\ pc' = "createClient"
  /\ log' = log \o <<Ev("start", i'), Ev("createClient", i')>>
  /\ UNCHANGED <<items, request, received, returnData, output, thrown, raised>>

\* The loop takes the next item, reads its parameters and asks for the client.
StartItem ==
  /\ pc = "loop"
  /\ i < Len(items)
  /\ clientOptions' = ClientOptions(Current)
  /\ pc' = "createClient"
  /\ log' = log \o <<Ev("start", i), Ev("createClient", i)>>
  /\ UNCHANGED <<items, i, request, received, returnData, output, thrown, raised>>

\* createClientAsync resolves: the item's inputs are validated, its request
\* is built and its SOAP operation is called.
ClientCreated ==
  /\ pc = "createClient"
  /\ IF BuildRequest(Current).threw
     THEN /\ Catch(BuildRequest(Current).err)
          /\ UNCHANGED <<items, i, clientOptions, request, received, returnData, output>>
     ELSE /\ request' = BuildRequest(Current).val
          /\ pc' = "call"
          /\ log' = Append(log, Ev("call", i))
          /\ UNCHANGED <<items, i, clientOptions, received, returnData, output,
                         thrown, raised>>

\* createClientAsync rejects.
ClientFailed ==
  /\ pc = "createClient"
  /\ \E error \in TransportErrors : Catch(error)
  /\ UNCHANGED <<items, i, clientOptions, request, received, returnData, output>>

\* What execute does with the response [res, raw, headers] of the SOAP
\* operation: res is parsed and the record of the item is pushed.
Receive(resp) ==
  LET parsed == ParseResponse(Current.operation, resp.res) IN
  /\ received' = [k \in 1..(i + 1) |-> IF k = i + 1 THEN resp ELSE received[k]]
  /\ IF parsed.threw
     THEN /\ Catch(parsed.err)
          /\ UNCHANGED <<items, i, clientOptions, request, returnData, output>>
     ELSE /\ returnData' = Push(returnData,
                OutputRecord(Current.returnFull, parsed.val, resp.raw, resp.headers))
          /\ i' = i + 1
          /\ pc' = "loop"
          /\ log' = Append(log, Ev("push", i))
          /\ UNCHANGED <<items, clientOptions, request, output, thrown, raised>>

\* The SOAP operation resolves: the response is parsed and the record pushed.
CallReturned ==
  /\ pc = "call"
  /\ \E resp \in Responses(Current.operation) : Receive(resp)

\* The SOAP operation rejects.
CallFailed ==
  /\ pc = "call"
  /\ \E error \in TransportErrors : Catch(error)
  /\ UNCHANGED <<items, i, clientOptions, request, received, returnData, output>>

\* The loop is over: return this.prepareOutputData(returnData).
Finish ==
  /\ pc = "loop"
  /\ i = Len(items)
  /\ output' = <<returnData>>
  /\ pc' = "done"
  /\ UNCHANGED <<items, i, clientOptions, request, received, returnData, thrown,
                 raised, log>>

Next ==
  \/ StartItem
  \/ ClientCreated
  \/ ClientFailed
  \/ CallReturned
  \/ CallFailed
  \/ Finish

Spec == Init /\ [][Next]_vars

\* ------------------------------------------------------------------------
\* handleSOAPError on its own: the SOAP operation of item i has rejected
\* with an error of ErrorDomain, every earlier item having been a logout
\* that succeeded, and the catch block classifies it.
\* ------------------------------------------------------------------------

FaultCodes   == {JUndefined, JStr(""), JStr("Server.Error")}
FaultStrings == {JUndefined, JStr(""), JStr("bad args")}
FaultActors  == {JUndefined, JStr(""), JStr("urn:ias")}
FaultDetails == {JUndefined, JStr(""), JStr("stack"),
                 JObj(<<Prop("code", JStr("E1"))>>), JCyclic}

Faults ==
  { Fault(c, s, a, d) :
      c \in FaultCodes, s \in FaultStrings, a \in FaultActors, d \in FaultDetails }

StatusCodes ==
  {JUndefined} \cup {JNum(n) : n \in {400, 401, 403, 404, 418, 500, 502, 503, 504}}

Messages ==
  {JUndefined} \cup
  { JStr(m) : m \in { "", "boom", "connect ETIMEDOUT", "timeout of 120000ms exceeded",
                      "Timeout awaiting reply", "getaddrinfo ENOTFOUND host",
                      "connect ECONNREFUSED 10.0.0.1:8080", "read ECONNRESET after timeout",
                      "unable to verify the first certificate", "CERT_HAS_EXPIRED",
                      "SSL connect ECONNREFUSED", "certificate check ETIMEDOUT" } }

\* The bodies of an error that holds no fault under root.
Bodies ==
  { JUndefined, JStr(""), JStr("<html>Bad Gateway</html>"),
    Envelope(Fault(JStr("Server.Error"), JUndefined, JStr("urn:ias"), JStr("stack"))),
    JObj(<<Prop("Envelope", JObj(<<>>))>>) }
  \cup { JStr(JSONText(v, 0, 0)) : v \in ParseableValues }

ErrorDomain ==
  { SOAPError(Envelope(fault), body, statusCode, message) :
      fault \in Faults,
      body \in {JUndefined,
                JStr(JSONText(Envelope(Fault(JUndefined, JStr("boom"), JUndefined,
                                             JObj(<<Prop("code", JStr("E1"))>>))), 0, 0))},
      statusCode \in {JUndefined, JNum(500)},
      message \in {JUndefined, JStr("boom"), JStr("connect ETIMEDOUT")} }
  \cup
  { SOAPError(root, body, statusCode, message) :
      root \in {JUndefined, JObj(<<>>)}, body \in Bodies,
      statusCode \in StatusCodes, message \in Messages }

\* The item a logout that succeeds comes from, and its response.
LogoutItem == Item("logout", "ABC123", "", FALSE)
LogoutResponse == Response(JUndefined, RawBody, JObj(<<>>))

\* The log of n items that succeeded.
RECURSIVE SucceededLog(_)
SucceededLog(n) ==
  IF n = 0 THEN <<>>
  ELSE SucceededLog(n - 1) \o
       <<Ev("start", n - 1), Ev("createClient", n - 1), Ev("call", n - 1),
         Ev("push", n - 1)>>

InitClassify ==
  /\ i \in 0..(MaxItems - 1)
  /\ \E operation \in Operations :
       items = [k \in 1..(i + 1) |->
                  IF k <= i THEN LogoutItem
                  ELSE Item(operation, "ABC123", "svcA", FALSE)]
  /\ pc = "catch"
  /\ clientOptions = ClientOptions(Current)
  /\ request = BuildRequest(Current).val
  /\ received = [k \in 1..i |-> LogoutResponse]
  /\ returnData = [k \in 1..i |->
                     OutputRecord(FALSE, parseLogoutResponse(LogoutResponse.res).val,
                                  LogoutResponse.raw, LogoutResponse.headers)]
  /\ output = <<>>
  /\ thrown \in ErrorDomain
  /\ raised = NoError
  /\ log = SucceededLog(i) \o
           <<Ev("start", i), Ev("createClient", i), Ev("call", i)>>

\* The catch block of item i classifies the error the call rejected with.
ClassifyStep ==
  /\ pc = "catch"
  /\ Catch(thrown)
  /\ UNCHANGED <<items, i, clientOptions, request, received, returnData, output>>

SpecClassify == InitClassify /\ [][ClassifyStep]_vars

\* ------------------------------------------------------------------------
\* The response parsers and the output record on their own: the SOAP
\* operation of item i, every earlier item having been a logout that
\* succeeded, resolves with a response of ResponseDomain.
\* ------------------------------------------------------------------------

\* The values of the <operation>Return field of a response.
ReturnValues ==
  { JUndefined, JNull, JStr(""), JStr("ABC123"), JNum(0), JNum(7), JBool(FALSE),
    JArr(<<JStr("svcA")>>), JObj(<<Prop("x", JNum(1))>>) }

\* The first component of a response: any value the SOAP client can hand
\* back, of the declared shape or not.
RawResponses ==
  { JUndefined, JNull, JStr(""), JStr("ABC123"), JNum(0), JNum(7), JBool(TRUE),
    JBool(FALSE), JArr(<<>>), JArr(<<JStr("svcA"), JStr("svcB")>>), JObj(<<>>),
    JObj(<<Prop("other", JStr("x"))>>) }
  \cup { JObj(<<Prop(field, val)>>) :
           field \in {"loginReturn", "listIASServicesReturn", "callIASServiceReturn"},
           val \in ReturnValues }

ResponseDomain ==
  { Response(res, raw, headers) :
      res \in RawResponses,
      raw \in {RawBody, "<soapenv:Envelope/>"},
      headers \in {JUndefined, JObj(<<Prop("content-type", JStr("text/xml"))>>)} }

InitParse ==
  /\ i \in 0..(MaxItems - 1)
  /\ \E operation \in Operations, returnFull \in BOOLEAN :
       items = [k \in 1..(i + 1) |->
                  IF k <= i THEN LogoutItem
                  ELSE Item(operation, "ABC123", "svcA", returnFull)]
  /\ pc = "call"
  /\ clientOptions = ClientOptions(Current)
  /\ request = BuildRequest(Current).val
  /\ received = [k \in 1..i |-> LogoutResponse]
  /\ returnData = [k \in 1..i |->
                     OutputRecord(FALSE, parseLogoutResponse(LogoutResponse.res).val,
                                  LogoutResponse.raw, LogoutResponse.headers)]
  /\ output = <<>>
  /\ thrown = JUndefined
  /\ raised = NoError
  /\ log = SucceededLog(i) \o
           <<Ev("start", i), Ev("createClient", i), Ev("call", i)>>

\* The SOAP operation of item i resolves with a response of ResponseDomain.
ParseStep ==
  /\ pc = "call"
  /\ \E resp \in ResponseDomain : Receive(resp)

SpecParse == InitParse /\ [][ParseStep]_vars

\* ------------------------------------------------------------------------
\* The validators and the request on their own: the client of item i, every
\* earlier item having been a logout that succeeded, has been asked for,
\* and item i is one of RequestItems.
\* ------------------------------------------------------------------------

SessionIds ==
  {"", " ", "abc-123_XY", "ABC123", "a b", "a.b", "abc!", "_-", " abc", "ab\n", "0"}

ServiceIds == {"svcA", "", " "}

\* The values of the argsJson and argsRaw parameters.
ArgsJsonValues ==
  { JObj(<<>>), JObj(<<Prop("x", JNum(1))>>), JNull, JUndefined,
    JArr(<<JNum(1)>>), JStr("{\"x\":1}") }

ArgsRawValues == {"", "raw text", "{\"x\":1}"}

RequestItems ==
  { Item("login", "", "", FALSE),
    [Item("login", "", "", TRUE) EXCEPT
       !.overrides = [NoOverrides EXCEPT !["p_strClient"] = "01",
                                         !["p_strLanguage"] = " "]] }
  \cup { Item(operation, sessionId, "", FALSE) :
           operation \in {"listIASServices", "logout"}, sessionId \in SessionIds }
  \cup { [Item("callIASService", sessionId, serviceId, FALSE) EXCEPT
            !.argsMode = argsMode, !.argsJson = argsJson, !.argsRaw = argsRaw,
            !.permanent = permanent] :
           sessionId \in {"ABC123", "", "a b", "a.b"}, serviceId \in ServiceIds,
           argsMode \in {"rawString", "jsonString"}, argsJson \in ArgsJsonValues,
           argsRaw \in ArgsRawValues, permanent \in BOOLEAN }

InitRequest ==
  /\ i \in 0..(MaxItems - 1)
  /\ \E item \in RequestItems :
       items = [k \in 1..(i + 1) |-> IF k <= i THEN LogoutItem ELSE item]
  /\ pc = "createClient"
  /\ clientOptions = ClientOptions(Current)
  /\ request = JUndefined
  /\ received = [k \in 1..i |-> LogoutResponse]
  /\ returnData = [k \in 1..i |->
                     OutputRecord(FALSE, parseLogoutResponse(LogoutResponse.res).val,
                                  LogoutResponse.raw, LogoutResponse.headers)]
  /\ output = <<>>
  /\ thrown = JUndefined
  /\ raised = NoError
  /\ log = SucceededLog(i) \o <<Ev("start", i), Ev("createClient", i)>>

SpecRequest == InitRequest /\ [][ClientCreated]_vars

\* ------------------------------------------------------------------------
\* The claims.
\* ------------------------------------------------------------------------

\* The places of the log where ev was done for item.
Events(ev, item) == {k \in 1..Len(log) : log[k] = Ev(ev, item)}

\* The indexes of the input items.
ItemIndexes == 0..(Len(items) - 1)

\* p occurs in s, character by character.
Contains(s, p) ==
  \E k \in 1..(Len(s) - Len(p) + 1) :
    \A j \in 1..Len(p) : CharAt(s, k + j - 1) = CharAt(p, j)

\* The message of an error contains one of the patterns.
MessageContainsAny(error, patterns) ==
  /\ Get(error, "message").t = "string"
  /\ \E p \in patterns : Contains(Get(error, "message").s, p)

TimeoutPatterns    == {"timeout", "ETIMEDOUT"}
ConnectionPatterns == {"ECONNREFUSED", "ENOTFOUND", "ECONNRESET"}
TLSPatterns        == {"CERT_", "certificate", "SSL"}

\* The error execute has thrown was classified from an error with / without
\* a fault, with / without a status code.
FaultFound  == Truthy(extractSOAPFault(thrown))
StatusFound == Truthy(Get(thrown, "statusCode"))

\* C1: a failure on item i does not halt the later items: once execute has
\* ended, by returning or by throwing, the loop has taken up every input
\* item, those after a failed item included.
C1_LaterItemsStillProcessed ==
  pc \in {"done", "failed"} =>
    \A j \in ItemIndexes : Events("start", j) # {}

\* The record of the k-th input item, from the response it was answered with.
RecordOf(k) ==
  OutputRecord(items[k].returnFull,
               ParseResponse(items[k].operation, received[k].res).val,
               received[k].raw, received[k].headers)

\* C2: at every point of the loop returnData is the in-order list of the
\* records of the items already processed: its k-th record is the record of
\* the k-th input item, every item has pushed at most one record, exactly
\* one once it has succeeded, and what execute returns is that list.
C2_OutputInInputOrder ==
  /\ Len(returnData) = i
  /\ Len(returnData) <= Len(items)
  /\ \A k \in 1..Len(returnData) :
       k \in DOMAIN received /\ returnData[k] = RecordOf(k)
  /\ \A j \in ItemIndexes :
       Cardinality(Events("push", j)) = IF j < i THEN 1 ELSE 0
  /\ pc = "done" => output = <<returnData>> /\ Len(returnData) = Len(items)

\* Two items with different records have been returned in input order.
C2_Witness ==
  /\ pc = "done"
  /\ Len(returnData) = 2
  /\ returnData[1] # returnData[2]
  /\ items[1].operation = "login" /\ items[2].operation = "logout"

\* The inputs of an item that validation rejects: an invalid session id for
\* listIASServices, callIASService or logout, an empty service id for
\* callIASService.
InvalidInputs(item) ==
  \/ /\ item.operation \in {"listIASServices", "callIASService", "logout"}
     /\ \/ item.sessionId = ""
        \/ Trim(item.sessionId) = ""
        \/ ~SessionIdPattern(item.sessionId)
  \/ /\ item.operation = "callIASService"
     /\ (item.serviceId = "" \/ Trim(item.serviceId) = "")

\* C3: an item with invalid inputs fails before any network call: neither
\* the creation of the SOAP client nor the SOAP operation happens for it.
C3_ValidationBeforeNetwork ==
  \A j \in ItemIndexes :
    InvalidInputs(items[j + 1]) =>
      Events("createClient", j) = {} /\ Events("call", j) = {}

C5_FirstMatchWins ==
  pc = "failed" =>
    LET timeout    == MessageContainsAny(thrown, TimeoutPatterns)
        connection == MessageContainsAny(thrown, ConnectionPatterns)
        tls        == MessageContainsAny(thrown, TLSPatterns)
    IN  raised.category =
          IF FaultFound THEN "fault"
          ELSE IF StatusFound THEN "http"
          ELSE IF timeout THEN "timeout"
          ELSE IF connection THEN "connection"
          ELSE IF tls THEN "tls"
          ELSE "generic"

\* An error matching the timeout and the connection rule is a timeout.
C5_Witness ==
  /\ pc = "failed"
  /\ ~FaultFound /\ ~StatusFound
  /\ Get(thrown, "message") = JStr("read ECONNRESET after timeout")
  /\ raised.category = "timeout"

\* "Failed to execute <operation> operation: "
Prefix(operation) == "Failed to execute " \o operation \o " operation: "

\* C6 as stated: every raised error carries the item index and the message
\* "Failed to execute <operation> operation: <classified message>".
C6_MessageIsPrefixedClassifiedMessage ==
  pc = "failed" =>
    /\ raised.itemIndex = i
    /\ raised.message = Prefix(Current.operation) \o raised.nodeMessage

\* C6: every raised error carries the item index and the message "Failed to
\* execute <operation> operation: <label>", the label being the classified
\* message for a fault and a generic error, the classified message without
\* its " (<statusCode>)" for http, and Timeout, Connection failed and
\* Certificate error for the three other categories.
C6_MessageIsPrefixedLabel ==
  pc = "failed" =>
    /\ raised.itemIndex = i
    /\ CASE raised.category \in {"fault", "generic"} ->
              raised.message = Prefix(Current.operation) \o raised.nodeMessage
         [] raised.category = "http" ->
              raised.message \o " (" \o NumToStr(Get(thrown, "statusCode").n) \o ")"
                = Prefix(Current.operation) \o raised.nodeMessage
         [] raised.category = "timeout" ->
              raised.message = Prefix(Current.operation) \o "Timeout"
         [] raised.category = "connection" ->
              raised.message = Prefix(Current.operation) \o "Connection failed"
         [] raised.category = "tls" ->
              raised.message = Prefix(Current.operation) \o "Certificate error"
         [] OTHER -> FALSE

\* The second item, a callIASService, has failed with a 404.
C6_Witness ==
  /\ pc = "failed"
  /\ i = 1
  /\ raised.itemIndex = 1
  /\ raised.category = "http"
  /\ raised.message =
       "Failed to execute callIASService operation: Not Found - WSDL endpoint not available"

\* The text of a fault's property, empty when it is missing.
TextOf(v) == IF v.t = "string" THEN v.s ELSE ""

\* C7 as stated: the message of a fault is "SOAP Fault [<faultcode>]
\* <faultstring>" for every fault object, also with an empty or missing
\* faultcode or faultstring.
C7_FaultMessageBracketed ==
  pc = "failed" /\ FaultFound =>
    raised.nodeMessage =
      "SOAP Fault [" \o TextOf(Get(extractSOAPFault(thrown), "faultcode")) \o "] "
        \o TextOf(Get(extractSOAPFault(thrown), "faultstring"))

\* C7: the message of a fault is "SOAP Fault", then " [<faultcode>]" when the
\* faultcode is not empty, then " <faultstring>" when the faultstring is not
\* empty.
C7_FaultMessageOmitsEmptyParts ==
  pc = "failed" /\ FaultFound =>
    LET code == TextOf(Get(extractSOAPFault(thrown), "faultcode"))
        str  == TextOf(Get(extractSOAPFault(thrown), "faultstring"))
    IN  raised.nodeMessage =
          "SOAP Fault" \o (IF code = "" THEN "" ELSE " [" \o code \o "]")
                       \o (IF str = "" THEN "" ELSE " " \o str)

\* A fault with an empty faultcode and a faultstring.
C7_Witness ==
  /\ pc = "failed"
  /\ Get(extractSOAPFault(thrown), "faultcode") = JStr("")
  /\ raised.nodeMessage = "SOAP Fault bad args"

\* The text a detail is written with.
DetailText(detail) ==
  IF detail.t = "string" THEN detail.s
  ELSE IF JSONThrows(detail) THEN "[object Object]"
  ELSE JSONText(detail, 2, 0)

\* C8: the description of a fault is its Actor, Detail and HTTP Status
\* lines, each when its value is there (not empty), in this order, one per
\* line; and it is undefined exactly when there is none of them.
C8_FaultDescription ==
  pc = "failed" /\ FaultFound =>
    LET fault  == extractSOAPFault(thrown)
        actor  == Get(fault, "faultactor")
        detail == Get(fault, "detail")
        status == Get(thrown, "statusCode")
        lines  == SelectSeq(
                    << [there |-> Truthy(actor), text |-> "Actor: " \o TextOf(actor)],
                       [there |-> Truthy(detail), text |-> "Detail: " \o DetailText(detail)],
                       [there |-> Truthy(status), text |-> "HTTP Status: " \o NumToStr(status.n)] >>,
                    LAMBDA l : l.there)
    IN  /\ (raised.description = JUndefined) <=> (lines = <<>>)
        /\ Len(lines) = 1 => raised.description = JStr(lines[1].text)
        /\ Len(lines) = 2 =>
             raised.description = JStr(lines[1].text \o "\n" \o lines[2].text)
        /\ Len(lines) = 3 =>
             raised.description =
               JStr(lines[1].text \o "\n" \o lines[2].text \o "\n" \o lines[3].text)

\* A fault with an actor, a structured detail and a status code.
C8_Witness ==
  /\ pc = "failed"
  /\ raised.category = "fault"
  /\ raised.description =
       JStr("Actor: urn:ias\nDetail: {\n  \"code\": \"E1\"\n}\nHTTP Status: 500")

\* The reasons of the status codes as the specification words them.
ReasonAsStated(code) ==
  CASE code = 400 -> "Bad Request - Invalid SOAP message"
    [] code = 401 -> "Unauthorized - Check credentials"
    [] code = 403 -> "Forbidden - Access denied"
    [] code = 404 -> "Not Found - WSDL endpoint not available"
    [] code = 500 -> "Internal Server Error - remote server error"
    [] code = 502 -> "Bad Gateway - Cannot reach remote server"
    [] code = 503 -> "Service Unavailable - remote server is down"
    [] code = 504 -> "Gateway Timeout - remote server not responding"
    [] OTHER      -> "HTTP Error"

\* The reasons with the server named as the node names it.
ReasonAmended(code) ==
  CASE code = 500 -> "Internal Server Error - CANIAS server error"
    [] code = 502 -> "Bad Gateway - Cannot reach CANIAS server"
    [] code = 503 -> "Service Unavailable - CANIAS server is down"
    [] code = 504 -> "Gateway Timeout - CANIAS server not responding"
    [] OTHER      -> ReasonAsStated(code)

\* C9 as stated: with a status code and no fault the message is
\* "<reason> (<statusCode>)", the reason from the table of the specification.
C9_StatusMessageAsStated ==
  pc = "failed" /\ ~FaultFound /\ StatusFound =>
    raised.nodeMessage =
      ReasonAsStated(Get(thrown, "statusCode").n) \o " ("
        \o NumToStr(Get(thrown, "statusCode").n) \o ")"

\* C9: with a status code and no fault the message is "<reason>
\* (<statusCode>)", the reason from the table with the server named CANIAS
\* in the entries of 500, 502, 503 and 504, and HTTP Error outside the table.
C9_StatusMessage ==
  pc = "failed" /\ ~FaultFound /\ StatusFound =>
    raised.nodeMessage =
      ReasonAmended(Get(thrown, "statusCode").n) \o " ("
        \o NumToStr(Get(thrown, "statusCode").n) \o ")"

\* A 404 without a fault.
C9_Witness ==
  /\ pc = "failed"
  /\ ~FaultFound
  /\ Get(thrown, "statusCode") = JNum(404)
  /\ raised.nodeMessage = "Not Found - WSDL endpoint not available (404)"

\* C10 as stated: without fault and status code, a message containing
\* timeout or ETIMEDOUT gives the category timeout and the message
\* "Request timeout".
C10_TimeoutAsStated ==
  pc = "failed" /\ ~FaultFound /\ ~StatusFound
                /\ MessageContainsAny(thrown, TimeoutPatterns) =>
    raised.category = "timeout" /\ raised.nodeMessage = "Request timeout"

\* C10: without fault and status code, a message containing timeout or
\* ETIMEDOUT gives the category timeout and the message "Request timeout -
\* CANIAS server did not respond in time"; a message with Timeout in another
\* case does not.
C10_Timeout ==
  pc = "failed" /\ ~FaultFound /\ ~StatusFound =>
    /\ MessageContainsAny(thrown, TimeoutPatterns) =>
         /\ raised.category = "timeout"
         /\ raised.nodeMessage = "Request timeout - CANIAS server did not respond in time"
    /\ Get(thrown, "message") = JStr("Timeout awaiting reply") =>
         raised.category # "timeout"

\* A connect that timed out.
C10_Witness ==
  /\ pc = "failed"
  /\ thrown = SOAPError(JUndefined, JUndefined, JUndefined, JStr("connect ETIMEDOUT"))
  /\ raised.category = "timeout"
  /\ raised.nodeMessage = "Request timeout - CANIAS server did not respond in time"

\* The error matches none of the message rules before the connection rule,
\* and none before the TLS rule.
NoTimeoutMatch    == ~MessageContainsAny(thrown, TimeoutPatterns)
NoConnectionMatch == ~MessageContainsAny(thrown, ConnectionPatterns)

\* C11 as stated: without fault, status code and timeout match, a message
\* containing ECONNREFUSED, ENOTFOUND or ECONNRESET gives the category
\* connection and the message "Cannot connect to server".
C11_ConnectionAsStated ==
  pc = "failed" /\ ~FaultFound /\ ~StatusFound /\ NoTimeoutMatch
                /\ MessageContainsAny(thrown, ConnectionPatterns) =>
    raised.category = "connection" /\ raised.nodeMessage = "Cannot connect to server"

\* C11: without fault, status code and timeout match, a message containing
\* ECONNREFUSED, ENOTFOUND or ECONNRESET gives the category connection and
\* the message "Cannot connect to CANIAS server", also when the message
\* matches the TLS rule as well.
C11_Connection ==
  pc = "failed" /\ ~FaultFound /\ ~StatusFound /\ NoTimeoutMatch
                /\ MessageContainsAny(thrown, ConnectionPatterns) =>
    /\ raised.category = "connection"
    /\ raised.nodeMessage = "Cannot connect to CANIAS server"

\* A host name that was not found.
C11_Witness ==
  /\ pc = "failed"
  /\ thrown = SOAPError(JUndefined, JUndefined, JUndefined,
                        JStr("getaddrinfo ENOTFOUND host"))
  /\ raised.category = "connection"
  /\ raised.nodeMessage = "Cannot connect to CANIAS server"

\* C12: without fault, status code, timeout match and connection match, a
\* message containing CERT_, certificate or SSL gives the category tls and
\* the message "SSL/TLS certificate error".
C12_TLS ==
  pc = "failed" /\ ~FaultFound /\ ~StatusFound /\ NoTimeoutMatch /\ NoConnectionMatch
                /\ MessageContainsAny(thrown, TLSPatterns) =>
    /\ raised.category = "tls"
    /\ raised.nodeMessage = "SSL/TLS certificate error"

\* A certificate that has expired.
C12_Witness ==
  /\ pc = "failed"
  /\ Get(thrown, "message") = JStr("CERT_HAS_EXPIRED")
  /\ ~FaultFound /\ ~StatusFound
  /\ raised.category = "tls"
  /\ raised.nodeMessage = "SSL/TLS certificate error"

\* C13: an error that matches none of the fault, status code, timeout,
\* connection and TLS rules is generic, and its message is the error's own
\* message as it is, or "Unknown error occurred" when the error has none
\* (no message property, or an empty one).
C13_Generic ==
  pc = "failed" /\ ~FaultFound /\ ~StatusFound /\ NoTimeoutMatch /\ NoConnectionMatch
                /\ ~MessageContainsAny(thrown, TLSPatterns) =>
    /\ raised.category = "generic"
    /\ raised.nodeMessage =
         IF Get(thrown, "message").t = "string" /\ Get(thrown, "message").s # ""
         THEN Get(thrown, "message").s
         ELSE "Unknown error occurred"

\* An error with a message of its own that no rule matches.
C13_Witness ==
  /\ pc = "failed"
  /\ thrown = SOAPError(JUndefined, JUndefined, JUndefined, JStr("boom"))
  /\ raised.category = "generic"
  /\ raised.nodeMessage = "boom"

\* The SOAP operation of an item has resolved and execute has dealt with the
\* response: the record is pushed, or the parser has thrown.
Answered == pc \in {"loop", "failed"} /\ Len(received) > 0

\* The place, in items and received, of the item whose response that was.
Handled == Len(received)

\* The item, and the first component of its response.
HandledItem == items[Handled]
RawResponse == received[Handled].res

\* The json of the record pushed last.
PushedJson == Get(returnData[Len(returnData)], "json")

\* The parsed result as the record pushed last shows it: its result field
\* in return-full mode.
FullResult == Get(PushedJson, "result")

\* A parsed result that is an object, as the record pushed last shows it:
\* the result field in return-full mode, the json itself otherwise.
ObjectResult == IF HandledItem.returnFull THEN FullResult ELSE PushedJson

\* The raw response is an object with the field.
HasField(field) ==
  /\ RawResponse.t = "object"
  /\ \E k \in 1..Len(RawResponse.f) : RawResponse.f[k].k = field

\* The value of the field of the raw response.
Field(field) ==
  RawResponse.f[CHOOSE k \in 1..Len(RawResponse.f) : RawResponse.f[k].k = field].v

\* C14: login normalization, rules in order: a raw response that is an
\* object with a truthy loginReturn gives {sessionId: loginReturn}; else a
\* raw response that is a string gives {sessionId: <that string>}; else it
\* fails with the login failure, as for {} and null.
C14_LoginNormalization ==
  Answered /\ HandledItem.operation = "login" =>
    IF HasField("loginReturn") /\ Truthy(Field("loginReturn"))
    THEN /\ pc = "loop"
         /\ ObjectResult = JObj(<<Prop("sessionId", Field("loginReturn"))>>)
    ELSE IF RawResponse.t = "string"
    THEN /\ pc = "loop"
         /\ ObjectResult = JObj(<<Prop("sessionId", RawResponse)>>)
    ELSE /\ pc = "failed"
         /\ Get(thrown, "message") =
              JStr("Login failed: No session ID returned from server")
         /\ Len(returnData) = Handled - 1

\* A login answered with {loginReturn: "ABC123"}.
C14_Witness ==
  /\ pc = "loop"
  /\ HandledItem.operation = "login"
  /\ RawResponse = JObj(<<Prop("loginReturn", JStr("ABC123"))>>)
  /\ ObjectResult = JObj(<<Prop("sessionId", JStr("ABC123"))>>)

\* C15: no login output without a session id: whenever login normalization
\* returns, the sessionId of its result is there and is not empty.
C15_NoLoginOutputWithoutSessionId ==
  Answered /\ HandledItem.operation = "login" /\ pc = "loop" =>
    Truthy(Get(ObjectResult, "sessionId"))

\* C16: the parsers of listIASServices, callIASService and logout never
\* throw: whatever the raw response is, the item's record is pushed and
\* nothing is thrown.
C16_OtherParsersNeverThrow ==
  Answered /\ HandledItem.operation \in {"listIASServices", "callIASService", "logout"} =>
    /\ pc = "loop"
    /\ thrown = JUndefined
    /\ raised = NoError
    /\ Len(returnData) = Handled

\* A listIASServices answered with a number.
C16_Witness ==
  /\ pc = "loop"
  /\ Answered
  /\ HandledItem.operation = "listIASServices"
  /\ RawResponse = JNum(7)
  /\ Len(returnData) = Handled

\* C17: listIASServices normalization: an object with a
\* listIASServicesReturn field gives {services: listIASServicesReturn ?? []};
\* else an array gives {services: <that array>}; every other raw response
\* gives {services: []}.
C17_ListNormalization ==
  Answered /\ HandledItem.operation = "listIASServices" =>
    /\ pc = "loop"
    /\ ObjectResult =
         JObj(<<Prop("services",
                IF HasField("listIASServicesReturn")
                THEN IF Field("listIASServicesReturn").t \in {"null", "undefined"}
                     THEN JArr(<<>>)
                     ELSE Field("listIASServicesReturn")
                ELSE IF RawResponse.t = "array" THEN RawResponse
                ELSE JArr(<<>>))>>)

\* A listIASServices answered with {listIASServicesReturn: null}.
C17_Witness ==
  /\ pc = "loop"
  /\ Answered
  /\ HandledItem.operation = "listIASServices"
  /\ RawResponse = JObj(<<Prop("listIASServicesReturn", JNull)>>)
  /\ ObjectResult = JObj(<<Prop("services", JArr(<<>>))>>)

\* C18: callIASService normalization: an object with a callIASServiceReturn
\* field gives the value of that field as it is, of whatever type; every
\* other raw response is the result unchanged.
C18_CallNormalization ==
  Answered /\ HandledItem.operation = "callIASService" =>
    /\ pc = "loop"
    /\ HandledItem.returnFull =>
         FullResult = IF HasField("callIASServiceReturn")
                      THEN Field("callIASServiceReturn")
                      ELSE RawResponse

\* A callIASService answered with {callIASServiceReturn: 0}.
C18_Witness ==
  /\ pc = "loop"
  /\ Answered
  /\ HandledItem.operation = "callIASService"
  /\ HandledItem.returnFull
  /\ RawResponse = JObj(<<Prop("callIASServiceReturn", JNum(0))>>)
  /\ FullResult = JNum(0)

\* C19: logout normalization always succeeds, with the result
\* {success: true, response: rawResponse ?? null}.
C19_LogoutNormalization ==
  Answered /\ HandledItem.operation = "logout" =>
    /\ pc = "loop"
    /\ ObjectResult =
         JObj(<<Prop("success", JBool(TRUE)),
                Prop("response", IF RawResponse.t \in {"null", "undefined"}
                                 THEN JNull ELSE RawResponse)>>)

\* A logout answered with undefined, in the mode that is not return-full.
C19_Witness ==
  /\ pc = "loop"
  /\ Handled = 2
  /\ HandledItem.operation = "logout"
  /\ ~HandledItem.returnFull
  /\ RawResponse = JUndefined
  /\ Get(PushedJson, "response") = JNull
  /\ Get(PushedJson, "success") = JBool(TRUE)

\* C20: the record of an item that succeeded: in return-full mode
\* {result, rawResponse, soapHeaders} with the parsed result and the raw
\* body and headers of that item's response; otherwise {data: <value>} for a
\* result that is a string, a number or a boolean; otherwise the result
\* object itself, or {} for a result that is null or undefined.
C20_OutputRecord ==
  Answered /\ pc = "loop" =>
    LET result == ParseResponse(HandledItem.operation, RawResponse).val
        record == returnData[Handled]
    IN  /\ Len(returnData) = Handled
        /\ record =
             JObj(<<Prop("json",
                IF HandledItem.returnFull
                THEN JObj(<<Prop("result", result),
                            Prop("rawResponse", JStr(received[Handled].raw)),
                            Prop("soapHeaders", received[Handled].headers)>>)
                ELSE IF result.t \in {"string", "number", "boolean"}
                THEN JObj(<<Prop("data", result)>>)
                ELSE IF result.t \in {"null", "undefined"}
                THEN JObj(<<>>)
                ELSE result)>>)

\* A callIASService answered with 7, in the mode that is not return-full.
C20_Witness ==
  /\ pc = "loop"
  /\ Answered
  /\ HandledItem.operation = "callIASService"
  /\ ~HandledItem.returnFull
  /\ RawResponse = JNum(7)
  /\ returnData[Handled] = JObj(<<Prop("json", JObj(<<Prop("data", JNum(7))>>))>>)

\* The characters a session id is made of.
AllowedInSessionId ==
  "0123456789-_abcdefghijklmnopqrstuvwxyzABCDEFGHIJKLMNOPQRSTUVWXYZ"

\* str is not empty and made of those characters only.
WellFormedSessionId(str) ==
  /\ Len(str) > 0
  /\ \A k \in 1..Len(str) : Contains(AllowedInSessionId, CharAt(str, k))

\* The two errors validateSessionId throws.
SessionIdErrors ==
  { JStr("Session ID is required and cannot be empty"),
    JStr("Invalid session ID format. Session ID should contain only letters, numbers, dashes, and underscores") }

\* C21: validateSessionId accepts a session id if and only if it is not
\* empty and consists of characters of [A-Za-z0-9_-] only: an item of an
\* operation that takes a session id fails with one of the validator's two
\* errors exactly when its session id is not of that form.
C21_SessionIdValidation ==
  /\ pc \in {"call", "failed"}
  /\ Current.operation \in {"listIASServices", "callIASService", "logout"}
  =>
    /\ (pc = "failed" /\ Get(thrown, "message") \in SessionIdErrors)
         <=> ~WellFormedSessionId(Current.sessionId)
    /\ Current.sessionId \in {"", " ", "a b", "a.b", "abc!", " abc", "ab\n"} =>
         pc = "failed"
    /\ Current.sessionId = "abc-123_XY" /\ Current.operation # "callIASService" =>
         pc = "call"

\* A listIASServices with the session id abc-123_XY is called.
C21_Witness ==
  /\ pc = "call"
  /\ Current.operation = "listIASServices"
  /\ Current.sessionId = "abc-123_XY"
  /\ request = JObj(<<Prop("p_strSessionId", JStr("abc-123_XY"))>>)

\* C22: no retry: for every item at most one client is created and at most
\* one SOAP operation is called; once something has been thrown for an item
\* nothing more is done for it, and the error is thrown from execute.
C22_NoRetry ==
  /\ \A j \in ItemIndexes :
       /\ Cardinality(Events("call", j)) <= 1
       /\ Cardinality(Events("createClient", j)) <= 1
  /\ \A k \in 1..Len(log) :
       log[k].ev = "throw" =>
         /\ \A m \in (k + 1)..Len(log) :
              ~(log[m].item = log[k].item /\ log[m].ev \in {"start", "createClient", "call", "push"})
         /\ pc = "failed"
         /\ raised # NoError

\* The SOAP operation of the first item has timed out, after one call.
C22_Witness ==
  /\ pc = "failed"
  /\ i = 0
  /\ Cardinality(Events("call", 0)) = 1
  /\ thrown = SOAPError(JUndefined, JUndefined, JUndefined,
                        JStr("timeout of 120000ms exceeded"))
  /\ raised.category = "timeout"

\* The items whose SOAP operation has been called and has neither resolved
\* into a record nor failed.
InFlight ==
  { j \in ItemIndexes :
      \E k \in Events("call", j) :
        \A m \in (k + 1)..Len(log) :
          ~(log[m].item = j /\ log[m].ev \in {"push", "throw"}) }

\* C23: the items are processed one at a time, in input order: what is done
\* for item j + 1 begins right after the record of item j was pushed, never
\* before, and at most one SOAP operation is in flight, that of the item the
\* loop is at.
C23_OneItemAtATime ==
  /\ \A k \in 1..(Len(log) - 1) : log[k].item <= log[k + 1].item
  /\ \A k \in 1..Len(log) :
       log[k].ev = "start" =>
         IF log[k].item = 0 THEN k = 1
         ELSE k > 1 /\ log[k - 1] = Ev("push", log[k].item - 1)
  /\ Cardinality(InFlight) <= 1
  /\ InFlight # {} <=> pc = "call"
  /\ InFlight \subseteq {i}

\* The SOAP operation of the second item is in flight, the first item done.
C23_Witness ==
  /\ pc = "call"
  /\ i = 1
  /\ InFlight = {1}
  /\ Events("push", 0) # {}

FaultUnder(x) == Get(Get(Get(x, "Envelope"), "Body"), "Fault")

\* The fault under the root of the error thrown.
RootFault == FaultUnder(Get(thrown, "root"))

\* The fault under the body of the error thrown: of the body itself when it
\* is a structure, of what it is the JSON text of when it is a string; null
\* when there is no body, when the text is not JSON and when no fault is there.
BodyFault ==
  LET body == Get(thrown, "body")
  IN  IF ~Truthy(body) THEN JNull
      ELSE IF body.t # "string" THEN FaultUnder(body)
      ELSE IF JSONParse(body.s).ok THEN FaultUnder(JSONParse(body.s).val)
      ELSE JNull

\* The category the rules after the fault rule give.
LaterCategory ==
  IF StatusFound THEN "http"
  ELSE IF MessageContainsAny(thrown, TimeoutPatterns) THEN "timeout"
  ELSE IF MessageContainsAny(thrown, ConnectionPatterns) THEN "connection"
  ELSE IF MessageContainsAny(thrown, TLSPatterns) THEN "tls"
  ELSE "generic"

\* C25: the fault is looked for under the root of the error first, and
\* under the body, parsed as a structure, only when the root holds none;
\* the search never raises: with a body that is not JSON, or that holds no
\* fault, there is no fault and the later rules classify the error.
C25_FaultExtraction ==
  pc = "failed" =>
    /\ raised.itemIndex = i
    /\ IF Truthy(RootFault)
       THEN /\ raised.category = "fault"
            /\ raised.nodeMessage = formatSOAPFaultMessage(RootFault)
            /\ raised.description = getErrorDescription(RootFault, thrown)
       ELSE IF Truthy(BodyFault)
       THEN /\ raised.category = "fault"
            /\ raised.nodeMessage = formatSOAPFaultMessage(BodyFault)
            /\ raised.description = getErrorDescription(BodyFault, thrown)
       ELSE raised.category = LaterCategory
    /\ ~Truthy(RootFault) /\ Get(thrown, "body") \in {JStr(""), JStr("<html>Bad Gateway</html>")}
         => raised.category = LaterCategory

\* An error with a body that is not JSON and the status code 502.
C25_Witness ==
  /\ pc = "failed"
  /\ thrown = SOAPError(JUndefined, JStr("<html>Bad Gateway</html>"), JNum(502), JStr("boom"))
  /\ raised.category = "http"
  /\ raised.nodeMessage = "Bad Gateway - Cannot reach CANIAS server (502)"

\* C26: the request of callIASService has exactly the fields sessionid,
\* serviceid, args, returntype and permanent, with the values of the item;
\* args is the JSON text of argsJson, of {} when argsJson is null or
\* undefined, in the mode jsonString, and argsRaw as it is otherwise.
C26_CallRequest ==
  pc = "call" /\ Current.operation = "callIASService" =>
    LET json == IF Current.argsJson.t \in {"null", "undefined"}
                THEN JObj(<<>>) ELSE Current.argsJson
        args == IF Current.argsMode = "jsonString"
                THEN JSONText(json, 0, 0) ELSE Current.argsRaw
    IN  /\ request = JObj(<<Prop("sessionid", JStr(Current.sessionId)),
                            Prop("serviceid", JStr(Current.serviceId)),
                            Prop("args", JStr(args)),
                            Prop("returntype", JStr(Current.returntype)),
                            Prop("permanent", JBool(Current.permanent))>>)
        /\ Current.argsMode = "jsonString" /\ Current.argsJson = JObj(<<Prop("x", JNum(1))>>)
             => Get(request, "args") = JStr("{\"x\":1}")
        /\ Current.argsMode = "jsonString" /\ Current.argsJson = JNull
             => Get(request, "args") = JStr("{}")

\* A callIASService in the mode jsonString with an args object.
C26_Witness ==
  /\ pc = "call"
  /\ Current.operation = "callIASService"
  /\ Current.argsMode = "jsonString"
  /\ Current.argsJson = JObj(<<Prop("x", JNum(1))>>)
  /\ Current.argsRaw = "raw text"
  /\ Current.permanent
  /\ Get(request, "args") = JStr("{\"x\":1}")
  /\ Get(request, "permanent") = JBool(TRUE)

\* C27: when an item fails, execute throws that item's error and returns
\* nothing: the records of the earlier items are not delivered; execute
\* returns its list only when every item has succeeded, with one record for
\* each item.
C27_NoOutputOnFailure ==
  /\ pc = "failed" =>
       /\ output = <<>>
       /\ raised # NoError
       /\ raised.itemIndex = i
       /\ Events("throw", i) # {}
  /\ output # <<>> => pc = "done"
  /\ pc = "done" =>
       /\ output = <<returnData>>
       /\ Len(returnData) = Len(items)
       /\ raised = NoError
       /\ \A j \in ItemIndexes :
            Events("throw", j) = {} /\ Cardinality(Events("push", j)) = 1

\* The second item has failed with an http error: the record of the first
\* one is not returned.
C27_Witness ==
  /\ pc = "failed"
  /\ i = 1
  /\ Len(returnData) = 1
  /\ output = <<>>
  /\ raised.category = "http"
  /\ raised.itemIndex = 1

\* The messages of the validation failures and of the login failure.
ValidationFailures ==
  { "Session ID is required and cannot be empty",
    "Invalid session ID format. Session ID should contain only letters, numbers, dashes, and underscores",
    "Service ID is required and cannot be empty" }

LoginFailure == "Login failed: No session ID returned from server"

\* The error thrown is one the code of execute has thrown, not the transport.
ThrownLocally == pc = "failed" /\ thrown \notin TransportErrors

\* C28: a validation failure and a login failure are thrown inside the try
\* block and classified like a transport error: the classifier takes the
\* generic branch, and the error thrown from execute has the message
\* "Failed to execute <operation> operation: <message of the failure>" and
\* the index of the item.
C28_LocalFailuresAreGeneric ==
  /\ ThrownLocally /\ Current.operation \in Operations =>
       /\ Get(thrown, "message").t = "string"
       /\ IF Events("call", i) = {}
          THEN /\ Get(thrown, "message").s \in ValidationFailures
               /\ InvalidInputs(Current)
          ELSE /\ Get(thrown, "message").s = LoginFailure
               /\ Current.operation = "login"
  /\ /\ pc = "failed"
     /\ Get(thrown, "message").t = "string"
     /\ Get(thrown, "message").s \in ValidationFailures \cup {LoginFailure}
     =>
       /\ Len(log) >= 2
       /\ log[Len(log) - 1] = Ev("throw", i)
       /\ log[Len(log)] = Ev("classify", i)
       /\ raised.category = "generic"
       /\ raised.nodeMessage = Get(thrown, "message").s
       /\ raised.message = "Failed to execute " \o Current.operation
                             \o " operation: " \o Get(thrown, "message").s
       /\ raised.itemIndex = i

\* The login of the second item was answered without a session id.
C28_Witness ==
  /\ pc = "failed"
  /\ i = 1
  /\ Current.operation = "login"
  /\ Get(thrown, "message") = JStr(LoginFailure)
  /\ raised.category = "generic"
  /\ raised.message =
       "Failed to execute login operation: Login failed: No session ID returned from server"
====
